---- MODULE Spec2Model ----
(***************************************************************************)
(* Model of app/assembly_store.py: RowData (one row of an assembly         *)
(* listing) and AssemblyStore (the ordered rows, the label registry, the   *)
(* architecture and word-size selectors).                                  *)
(*                                                                         *)
(* Python 2 str values are byte strings: every str of the program (label,  *)
(* opcode, mnemonic, comment) is a sequence of byte values 0..255.         *)
(* A Python index is 0-based and may be negative; TLA+ sequences are       *)
(* 1-based, so position k of a list is element k + 1 of the sequence.      *)
(* The store never copies a row it is handed or hands out through GetRows: *)
(* a row object the caller keeps after InsertRowAt / UpdateRow, or takes    *)
(* from GetRows(), is the store's own object (held[1].ref is its position   *)
(* in rows). The caller hands the store no object the store already has,   *)
(* so no two positions of rows are one object.                             *)
(***************************************************************************)
EXTENDS Integers, Sequences, FiniteSets, TLC

VARIABLES
  rows,     \* AssemblyStore.rows: the list of RowData objects
  labels,   \* AssemblyStore.labels: set of str
  cpu,      \* AssemblyStore.cpu: the capstone architecture constant
  bits,     \* AssemblyStore.bits
  cfg,      \* AssemblyStore.cfg
  held,     \* the row object the caller holds (at most one): one it built, a copy
            \* from GetRow / GetRowsIterator, or an object of the store itself
  iter,     \* the generator GetRowsIterator returned, and where its loop stands
  last      \* the last call: its name, the exception it raised, the value it returned

vars == <<rows, labels, cpu, bits, cfg, held, iter, last>>

----------------------------------------------------------------------------
\* Bounds of the model.

\* rows the store is created with (the program creates 20 identical ones)
InitRows == 2
\* InsertRowAt is not called on a list that already has MaxRows rows
MaxRows == 3
\* the caller appends to a held row's targets while it is shorter than this
MaxTargets == 2
\* the opcode of a row the caller builds has at most this many bytes
MaxOpcodeLen == 2
\* rows one AddTenRows appends (the program appends 10); it is not called when
\* the list would grow beyond MaxRows
AddedRows == 1
\* deleting row 0 lets the addresses drift upwards without limit: no call is made
\* that would put a row more than MaxDrift bytes above the address it was built with
MaxDrift == 2

----------------------------------------------------------------------------
\* Values the caller draws its arguments from.

EmptyStr == <<>>
\* the label "L"
LabelL == <<76>>
\* the one-byte opcode of NOP, '\x90'
OpNop == <<144>>
\* a two-byte str: the bytes 'zz', also the text of a malformed hex string
OpZZ == <<122, 122>>
\* the mnemonic "NOP"
MnemNop == <<78, 79, 80>>

\* The address of a row is an int in most rows and a str in the rows AddTenRows
\* appends. TLC compares no integer with a sequence, so an address is written
\* with its type: the int n as [int |-> n], the str s as [str |-> s].
PyInt(n) == [int |-> n]
PyStr(s) == [str |-> s]
IsInt(v) == DOMAIN v = {"int"}
\* the address a caller gives a row it builds (0x1000)
AddressInputs == {PyInt(4096)}
\* the address '' of the rows AddTenRows appends
StrAddress == PyStr(EmptyStr)
\* indices handed to the store: every index valid for some list, -1 (the last
\* element, for Python) and one index out of range on each side
IndexInputs == (0 .. (MaxRows - 1)) \cup {0 - 1, 0 - (MaxRows + 2), MaxRows + 1}

None == "None"
NoRaise == "none"
IndexError == "IndexError"
TypeError == "TypeError"
ValueError == "ValueError"
AssemblyStoreError == "AssemblyStoreError"

X86 == "x86"
X64 == "x64"
ARM == "arm"
ARM64 == "arm64"
MIPS == "mips"
\* the architectures and word sizes a caller asks for: the supported ones and one other
ArchInputs == {X86, X64, ARM, ARM64, MIPS, "ppc"}
BitsInputs == {8, 16, 32, 64}
\* what the caller does to a row object it holds
EditInputs == {"label", "targets.append", "targets[0]"}

\* the bytes of the opcodes a caller builds a row with: '\x0a', '\x9a'
ByteInputs == {10, 154}
OpcodeInputs == UNION {[1..n -> ByteInputs] : n \in 0..MaxOpcodeLen}
\* the strings handed to SetOpcode: "90", "9a 0B", "" (hex), "zz", "9" (not hex)
HexInputs == {<<57, 48>>, <<57, 97, 32, 48, 66>>, <<>>, <<122, 122>>, <<57>>}
\* the mnemonic "JMP [ebx+4]"
MnemJmp == <<74, 77, 80, 32, 91, 101, 98, 120, 43, 52, 93>>
\* the texts handed to SetMnemonic: "", "nop", "dB 1, aB", "  dq 7", "dbx 1",
\* "call L", "jmp [ebx+4]" and " "
MnemonicInputs ==
  {<<>>, <<110, 111, 112>>, <<100, 66, 32, 49, 44, 32, 97, 66>>,
   <<32, 32, 100, 113, 32, 55>>, <<100, 98, 120, 32, 49>>,
   <<99, 97, 108, 108, 32, 76>>,
   <<106, 109, 112, 32, 91, 101, 98, 120, 43, 52, 93>>, <<32>>}
\* the texts of the decoded instructions handed to ReplaceLabel:
\* "jmp [ebx]", "jmp [ebx+4]", "nop" and ""
InstInputs ==
  {<<106, 109, 112, 32, 91, 101, 98, 120, 93>>,
   <<106, 109, 112, 32, 91, 101, 98, 120, 43, 52, 93>>,
   <<110, 111, 112>>, <<>>}

\* the texts handed to SetLabel and SetComment: "ab", "L", "" and the one byte
\* '\xe9', which is not ASCII
TextInputs == {<<97, 98>>, <<76>>, <<>>, <<233>>}
\* the texts handed to SetAddress: "0x1001", "2", " 0X10 ", "0x", "zz", "+ 5"
\* and "-1"
AddressTextInputs ==
  {<<48, 120, 49, 48, 48, 49>>, <<50>>, <<32, 48, 88, 49, 48, 32>>, <<48, 120>>,
   <<122, 122>>, <<43, 32, 53>>, <<45, 49>>}
\* the decoded instructions handed to CreateRowFromCapstoneInst, op_str being
\* what inst.op_str() returns: "nop" without operands, "jmp" with "[ebx]"
CapstoneInsts ==
  {[address |-> PyInt(4096), bytes |-> <<144>>, mnemonic |-> <<110, 111, 112>>,
    op_str |-> <<>>],
   [address |-> PyInt(4096), bytes |-> <<255, 35>>, mnemonic |-> <<106, 109, 112>>,
    op_str |-> <<91, 101, 98, 120, 93>>]}

----------------------------------------------------------------------------
\* RowData

\* RowData.__init__: offset is always 0, whatever the caller passes
RowData(offset, label, address, opcode, mnemonic, comment, index, in_use, stack_delta) ==
  [offset |-> 0,
   label |-> label,
   address |-> address,
   opcode |-> opcode,
   mnemonic |-> mnemonic,
   comment |-> comment,
   index |-> index,
   in_use |-> in_use,
   error |-> FALSE,
   targets |-> <<0>>,
   is_a_data_defintion_inst |-> FALSE,
   is_branch_or_call |-> FALSE,
   stack_delta |-> stack_delta]

\* the rows a caller builds and hands to InsertRowAt / UpdateRow (index is left
\* at its default, 0):
\*   an encoded one-byte instruction without a label,
\*   an encoded two-byte instruction with the label "L",
\*   a row not in use that still holds one byte and the label "L",
\*   an empty row not in use
RowInputs ==
  { RowData(0, EmptyStr, a, OpNop, MnemNop, EmptyStr, 0, TRUE, 0) : a \in AddressInputs }
  \cup { RowData(0, LabelL, a, OpZZ, MnemNop, EmptyStr, 0, TRUE, 0) : a \in AddressInputs }
  \cup { RowData(0, LabelL, a, OpNop, MnemNop, EmptyStr, 0, FALSE, 0) : a \in AddressInputs }
  \cup { RowData(0, EmptyStr, a, EmptyStr, EmptyStr, EmptyStr, 0, FALSE, 0) : a \in AddressInputs }

----------------------------------------------------------------------------
\* Python 2 str methods and binascii, on byte sequences

\* the bytes str.strip() and str.split() take for whitespace: \t \n \v \f \r ' '
IsSpace(c) == c \in {9, 10, 11, 12, 13, 32}

\* s.lower(), s.upper(): the ASCII letters only
lower(s) == [k \in 1..Len(s) |-> IF s[k] \in 65..90 THEN s[k] + 32 ELSE s[k]]
upper(s) == [k \in 1..Len(s) |-> IF s[k] \in 97..122 THEN s[k] - 32 ELSE s[k]]

\* s.strip()
strip(s) ==
  LET keep == {k \in 1..Len(s) : ~IsSpace(s[k])}
  IN IF keep = {} THEN <<>>
     ELSE SubSeq(s, CHOOSE a \in keep : \A k \in keep : a <= k,
                    CHOOSE b \in keep : \A k \in keep : k <= b)

\* s.split(): the maximal runs of non-whitespace bytes, in order
RECURSIVE SplitFrom(_, _, _, _)
SplitFrom(s, k, word, words) ==
  LET closed == IF word = <<>> THEN words ELSE Append(words, word)
  IN IF k > Len(s) THEN closed
     ELSE IF IsSpace(s[k]) THEN SplitFrom(s, k + 1, <<>>, closed)
     ELSE SplitFrom(s, k + 1, Append(word, s[k]), words)

split(s) == SplitFrom(s, 1, <<>>, <<>>)

\* s.startswith(prefix)
startswith(s, prefix) ==
  Len(prefix) <= Len(s) /\ SubSeq(s, 1, Len(prefix)) = prefix

\* ''.join(words)
RECURSIVE join(_)
join(words) == IF words = <<>> THEN <<>> ELSE Head(words) \o join(Tail(words))

\* s.count(c) for a one-byte c
count(s, c) == Cardinality({k \in 1..Len(s) : s[k] = c})

\* s.replace(c, '') for a one-byte c
replace(s, c) == SelectSeq(s, LAMBDA x : x # c)

\* the digit hexlify and hex write for a value 0..15
HexDigit(n) == IF n < 10 THEN 48 + n ELSE 87 + n

\* the value of a hex digit in either case, -1 for any other byte
HexDigitValue(c) ==
  IF c \in 48..57 THEN c - 48
  ELSE IF c \in 97..102 THEN c - 87
  ELSE IF c \in 65..70 THEN c - 55
  ELSE 0 - 1

\* binascii.hexlify(data): two lower-case digits per byte, high nibble first
RECURSIVE hexlify(_)
hexlify(data) ==
  IF data = <<>> THEN <<>>
  ELSE <<HexDigit(Head(data) \div 16), HexDigit(Head(data) % 16)>> \o hexlify(Tail(data))

RECURSIVE UnhexPairs(_)
UnhexPairs(s) ==
  IF s = <<>> THEN <<>>
  ELSE <<16 * HexDigitValue(s[1]) + HexDigitValue(s[2])>> \o UnhexPairs(SubSeq(s, 3, Len(s)))

\* binascii.unhexlify(hexstr): TypeError for an odd length or a non-hex digit
unhexlify(hexstr) ==
  IF Len(hexstr) % 2 = 1 \/ \E k \in 1..Len(hexstr) : HexDigitValue(hexstr[k]) < 0
  THEN [raised |-> TypeError, data |-> <<>>]
  ELSE [raised |-> NoRaise, data |-> UnhexPairs(hexstr)]

\* hex(n) for an int: "0x" and the digits without leading zeros, "-0x.." below 0
\* (the 'L' DisplayAddress removes ends the hex() of a long, beyond the
\* addresses of this model)
RECURSIVE HexDigits(_)
HexDigits(n) ==
  IF n < 16 THEN <<HexDigit(n)>> ELSE Append(HexDigits(n \div 16), HexDigit(n % 16))

hex(n) ==
  IF n < 0 THEN <<45, 48, 120>> \o HexDigits(0 - n) ELSE <<48, 120>> \o HexDigits(n)

\* the value of a string of digits of the base (hex digits in either case)
RECURSIVE DigitsValue(_, _)
DigitsValue(s, base) ==
  IF s = <<>> THEN 0
  ELSE base * DigitsValue(SubSeq(s, 1, Len(s) - 1), base) + HexDigitValue(s[Len(s)])

\* s without the whitespace it begins with
lstrip(s) ==
  IF \A k \in 1..Len(s) : IsSpace(s[k]) THEN <<>>
  ELSE SubSeq(s, CHOOSE a \in 1..Len(s) :
                   ~IsSpace(s[a]) /\ \A k \in 1..(a - 1) : IsSpace(s[k]),
              Len(s))

\* int(text, base) of Python 2 for base 10 or 16 and a value that fits a C long
\* (PyInt_FromString, PyOS_strtol, PyOS_strtoul): whitespace is skipped before
\* a sign, again after it and after the last digit; base 16 allows "0x" / "0X"
\* where a hex digit follows it; ValueError when no digit is found or a byte is
\* left over
int(text, base) ==
  LET t == lstrip(text)
      signed == t # <<>> /\ t[1] \in {43, 45}
      unsigned == strip(IF signed THEN Tail(t) ELSE t)
      prefixed == base = 16 /\ Len(unsigned) >= 3
                    /\ unsigned[1] = 48 /\ unsigned[2] \in {120, 88}
                    /\ HexDigitValue(unsigned[3]) >= 0
      digits == IF prefixed THEN SubSeq(unsigned, 3, Len(unsigned)) ELSE unsigned
      isDigit(c) == HexDigitValue(c) >= 0 /\ HexDigitValue(c) < base
  IN IF digits = <<>> \/ \E k \in 1..Len(digits) : ~isDigit(digits[k])
     THEN [raised |-> ValueError, value |-> 0]
     ELSE [raised |-> NoRaise,
           value |-> IF signed /\ t[1] = 45 THEN 0 - DigitsValue(digits, base)
                     ELSE DigitsValue(digits, base)]

\* s.encode('ascii') of a str: Python 2 decodes the bytes as ASCII first, which
\* raises UnicodeDecodeError for a byte above 127, and gives the same bytes back
IsAscii(s) == \A k \in 1..Len(s) : s[k] < 128

----------------------------------------------------------------------------
\* RowData: the methods as functions of the row

\* RowData.SetComment: the except clause lets nothing out
SetCommentRow(row, comment) ==
  IF IsAscii(comment) THEN [row EXCEPT !.comment = comment] ELSE row

\* RowData.SetLabel: the except clause lets nothing out
SetLabelRow(row, label) ==
  IF IsAscii(label) THEN [row EXCEPT !.label = upper(label)] ELSE row

\* RowData.SetAddress: the bare except lets nothing out
SetAddressRow(row, address) ==
  LET res == IF startswith(address, <<48, 120>>) THEN int(address, 16)
             ELSE int(address, 10)
  IN IF res.raised = NoRaise THEN [row EXCEPT !.address = PyInt(res.value)] ELSE row

\* RowData.DisplayAddress: the string it returns, or the TypeError of hex()
\* for an address that is a str
DisplayAddressStr(row) ==
  IF ~IsInt(row.address) THEN [raised |-> TypeError, str |-> EmptyStr]
  ELSE [raised |-> NoRaise, str |-> replace(hex(row.address.int), 76)]

\* the text SetOpcode leaves in mnemonic: '<INVALID OPCODE SUPPLIED>'
InvalidOpcodeSupplied ==
  <<60, 73, 78, 86, 65, 76, 73, 68, 32, 79, 80, 67, 79, 68, 69, 32,
    83, 85, 80, 80, 76, 73, 69, 68, 62>>

\* the except branch without the error flag
SetOpcodeRow_NoErrorFlag(row, hex_str) ==
  LET res == unhexlify(replace(hex_str, 32))
  IN IF res.raised = NoRaise
     THEN [row EXCEPT !.opcode = res.data, !.in_use = TRUE]
     ELSE [row EXCEPT !.in_use = FALSE, !.opcode = hex_str,
                      !.mnemonic = InvalidOpcodeSupplied]

\* RowData.SetOpcode: the row after the call (the bare except lets nothing out)
SetOpcodeRow(row, hex_str) ==
  LET res == unhexlify(replace(hex_str, 32))
  IN IF res.raised = NoRaise
     THEN [row EXCEPT !.opcode = res.data, !.in_use = TRUE]
     ELSE [row EXCEPT !.in_use = FALSE, !.opcode = hex_str,
                      !.mnemonic = InvalidOpcodeSupplied, !.error = TRUE]

\* ('db', 'dw', 'dd', 'dq')
DataDefinitions == {<<100, 98>>, <<100, 119>>, <<100, 100>>, <<100, 113>>}

\* the row with the attribute self.opcodes = '' (sic) added and in_use cleared
WithOpcodesCleared(row) ==
  [f \in DOMAIN row \cup {"opcodes"} |->
     IF f = "opcodes" THEN EmptyStr ELSE IF f = "in_use" THEN FALSE ELSE row[f]]

\* the whole text upper-cased, data definition or not
SetMnemonicRow_UpperAll(row, mnemonic) ==
  IF mnemonic = EmptyStr THEN [row |-> WithOpcodesCleared(row), raised |-> NoRaise]
  ELSE
    LET normalized_mnemonic == strip(lower(mnemonic))
        branch == startswith(normalized_mnemonic, <<106>>)
                    \/ startswith(normalized_mnemonic, <<99, 97, 108, 108>>)
        stored == [row EXCEPT !.mnemonic = mnemonic, !.is_branch_or_call = branch]
    IN IF split(normalized_mnemonic) = <<>> THEN [row |-> stored, raised |-> IndexError]
       ELSE [row |-> [stored EXCEPT
                        !.is_a_data_defintion_inst =
                           split(normalized_mnemonic)[1] \in DataDefinitions,
                        !.mnemonic = upper(mnemonic),
                        !.in_use = TRUE],
             raised |-> NoRaise]

\* RowData.SetMnemonic: the row after the call and what the call raised
\* (split()[0] of a text of whitespace only raises IndexError, after the
\* assignments before it)
SetMnemonicRow(row, mnemonic) ==
  IF mnemonic = EmptyStr THEN [row |-> WithOpcodesCleared(row), raised |-> NoRaise]
  ELSE
    LET normalized_mnemonic == strip(lower(mnemonic))
        branch == startswith(normalized_mnemonic, <<106>>)
                    \/ startswith(normalized_mnemonic, <<99, 97, 108, 108>>)
        stored == [row EXCEPT !.mnemonic = mnemonic, !.is_branch_or_call = branch]
        new_mnemonic == split(mnemonic)
    IN IF split(normalized_mnemonic) = <<>> THEN [row |-> stored, raised |-> IndexError]
       ELSE IF split(normalized_mnemonic)[1] \notin DataDefinitions
       THEN [row |-> [stored EXCEPT !.is_a_data_defintion_inst = FALSE,
                                    !.mnemonic = upper(mnemonic),
                                    !.in_use = TRUE],
             raised |-> NoRaise]
       ELSE [row |-> [stored EXCEPT !.is_a_data_defintion_inst = TRUE,
                                    !.mnemonic = upper(new_mnemonic[1]) \o <<32>>
                                                   \o join(Tail(new_mnemonic)),
                                    !.in_use = TRUE],
             raised |-> NoRaise]

\* the loop of DisplayOpcode: a space after every second digit
RECURSIVE SpacedPairs(_)
SpacedPairs(original_str) ==
  IF Len(original_str) < 2 THEN original_str
  ELSE <<original_str[1], original_str[2], 32>>
         \o SpacedPairs(SubSeq(original_str, 3, Len(original_str)))

\* the string of the loop, returned as it is
DisplayOpcodeStr_NoStrip(row) == SpacedPairs(hexlify(row.opcode))

\* RowData.DisplayOpcode
DisplayOpcodeStr(row) == strip(SpacedPairs(hexlify(row.opcode)))

\* the dict with the opcode as hexlify gives it, not spaced by DisplayOpcode
ToDictRow_PlainHex(row) ==
  IF DisplayAddressStr(row).raised # NoRaise
  THEN [raised |-> DisplayAddressStr(row).raised, dict |-> <<>>]
  ELSE [raised |-> NoRaise,
        dict |-> [offset |-> row.offset,
                  label |-> row.label,
                  address |-> DisplayAddressStr(row).str,
                  opcode |-> hexlify(row.opcode),
                  mnemonic |-> row.mnemonic,
                  comment |-> row.comment,
                  index |-> row.index,
                  error |-> row.error,
                  in_use |-> row.in_use,
                  targets |-> row.targets,
                  is_a_data_definition_inst |-> row.is_a_data_defintion_inst,
                  is_a_branch_or_call |-> row.is_branch_or_call]]

\* RowData.ToDict: the dict it returns (targets is the row's own list, not a
\* copy of it), or what DisplayAddress raised
ToDictRow(row) ==
  IF DisplayAddressStr(row).raised # NoRaise
  THEN [raised |-> DisplayAddressStr(row).raised, dict |-> <<>>]
  ELSE [raised |-> NoRaise,
        dict |-> [offset |-> row.offset,
                  label |-> row.label,
                  address |-> DisplayAddressStr(row).str,
                  opcode |-> DisplayOpcodeStr(row),
                  mnemonic |-> row.mnemonic,
                  comment |-> row.comment,
                  index |-> row.index,
                  error |-> row.error,
                  in_use |-> row.in_use,
                  targets |-> row.targets,
                  is_a_data_definition_inst |-> row.is_a_data_defintion_inst,
                  is_a_branch_or_call |-> row.is_branch_or_call]]

\* the bytes '[', ']', '+', '-', ',' ReplaceLabel counts
CountedBytes == {91, 93, 43, 45, 44}

\* AssemblyStore.ReplaceLabel(row, inst), inst_str being str(inst): the row
\* after the call, what it returned and what it raised (split()[0] of a text
\* without a token raises IndexError)
ReplaceLabelResult(row, inst_str) ==
  IF split(row.mnemonic) = <<>> \/ split(inst_str) = <<>>
  THEN [row |-> row, ret |-> None, raised |-> IndexError]
  ELSE IF lower(split(row.mnemonic)[1]) # lower(split(inst_str)[1])
  THEN [row |-> [row EXCEPT !.error = TRUE], ret |-> EmptyStr, raised |-> NoRaise]
  ELSE IF \E c \in CountedBytes : count(row.mnemonic, c) # count(inst_str, c)
  THEN [row |-> [row EXCEPT !.error = TRUE], ret |-> EmptyStr, raised |-> NoRaise]
  ELSE [row |-> row, ret |-> upper(row.mnemonic), raised |-> NoRaise]

----------------------------------------------------------------------------
\* Python list primitives

\* the 1-based position a Python index i names in a list of n elements,
\* 0 when i is out of range (list[i] raises IndexError)
PyPos(n, i) ==
  IF i >= 0 /\ i < n THEN i + 1
  ELSE IF i < 0 /\ i + n >= 0 THEN i + n + 1
  ELSE 0

\* list.insert(i, x) on a list of n elements: the number of elements x comes
\* to stand after (an index out of range is clamped, never an error)
InsertPos(n, i) ==
  IF i < 0 THEN (IF i + n < 0 THEN 0 ELSE i + n)
  ELSE IF i > n THEN n ELSE i

\* list.insert(i, x)
PyInsert(s, i, x) ==
  LET n == Len(s)
      k == InsertPos(n, i)
  IN SubSeq(s, 1, k) \o <<x>> \o SubSeq(s, k + 1, n)

\* the list left by list.pop(i), for an index in range
PyPop(s, i) ==
  LET k == PyPos(Len(s), i)
  IN SubSeq(s, 1, k - 1) \o SubSeq(s, k + 1, Len(s))

\* Where the object at each position of a list of n elements stands after a
\* statement on the list (0: no longer in the list):
\* after list.insert(i, x),
AfterInsert(n, i) == [p \in 1..n |-> IF p > InsertPos(n, i) THEN p + 1 ELSE p]
\* after list.pop(i) (an index out of range raises and moves nothing),
AfterPop(n, i) ==
  [p \in 1..n |->
     IF PyPos(n, i) = 0 THEN p
     ELSE IF p = PyPos(n, i) THEN 0
     ELSE IF p > PyPos(n, i) THEN p - 1
     ELSE p]
\* after list[i] = x (the same),
AfterAssign(n, i) == [p \in 1..n |-> IF p = PyPos(n, i) THEN 0 ELSE p]
\* after a statement that moves no element,
Unmoved(n) == [p \in 1..n |-> p]
\* after the list is replaced by a new one
Dropped(n) == [p \in 1..n |-> 0]

----------------------------------------------------------------------------
\* AssemblyStore: the methods as functions of the row list

\* the loop without the test of in_use: every row is given the running address
\* and offset, a row not in use adding no bytes
RECURSIVE LayoutFrom_AllRows(_, _, _, _)
LayoutFrom_AllRows(rs, k, next_address, next_offset) ==
  IF k > Len(rs) THEN rs
  ELSE LayoutFrom_AllRows([rs EXCEPT ![k].address = PyInt(next_address),
                                     ![k].offset = next_offset],
                          k + 1,
                          next_address + (IF rs[k].in_use THEN Len(rs[k].opcode) ELSE 0),
                          next_offset + (IF rs[k].in_use THEN Len(rs[k].opcode) ELSE 0))

\* the loop of UpdateOffsetsAndAddresses from position k on (i = k - 1 in the source)
RECURSIVE LayoutFrom(_, _, _, _)
LayoutFrom(rs, k, next_address, next_offset) ==
  IF k > Len(rs) THEN rs
  ELSE IF ~rs[k].in_use THEN LayoutFrom(rs, k + 1, next_address, next_offset)
  ELSE LayoutFrom([rs EXCEPT ![k].address = PyInt(next_address),
                             ![k].offset = next_offset],
                  k + 1,
                  next_address + Len(rs[k].opcode),
                  next_offset + Len(rs[k].opcode))

\* UpdateOffsetsAndAddresses: rows[0] of an empty list raises IndexError, and
\* rows[0].address + len(..) raises TypeError when the address is a str, after
\* rows[0].offset = 0
UpdateOffsetsAndAddresses(rs) ==
  IF Len(rs) = 0 THEN [rows |-> rs, raised |-> IndexError]
  ELSE LET anchored == [rs EXCEPT ![1].offset = 0]
       IN IF ~IsInt(anchored[1].address)
          THEN [rows |-> anchored, raised |-> TypeError]
          ELSE [rows |-> LayoutFrom(anchored, 2,
                                    anchored[1].address.int + Len(anchored[1].opcode),
                                    Len(anchored[1].opcode)),
                raised |-> NoRaise]

\* for i in xrange(from, len(rows)): rows[i].index = i
\* (i may be negative: rows[i] then counts from the end, or raises IndexError)
RECURSIVE SetIndicesFrom(_, _)
SetIndicesFrom(rs, i) ==
  IF i >= Len(rs) THEN [rows |-> rs, raised |-> NoRaise]
  ELSE IF PyPos(Len(rs), i) = 0 THEN [rows |-> rs, raised |-> IndexError]
  ELSE SetIndicesFrom([rs EXCEPT ![PyPos(Len(rs), i)].index = i], i + 1)

\* InsertRowAt
InsertRowAtRows(rs, index, row) ==
  LET renumbered == SetIndicesFrom(PyInsert(rs, index, row), index + 1)
  IN IF renumbered.raised # NoRaise THEN renumbered
     ELSE UpdateOffsetsAndAddresses(renumbered.rows)

\* DeleteRow
DeleteRowRows(rs, index) ==
  IF PyPos(Len(rs), index) = 0 THEN [rows |-> rs, raised |-> IndexError]
  ELSE UpdateOffsetsAndAddresses(SetIndicesFrom(PyPop(rs, index), 0).rows)

\* the assignment without the recomputation
UpdateRowRows_NoRecompute(rs, i, new_row) ==
  IF PyPos(Len(rs), i) = 0 THEN [rows |-> rs, raised |-> IndexError]
  ELSE [rows |-> [rs EXCEPT ![PyPos(Len(rs), i)] = new_row], raised |-> NoRaise]

\* UpdateRow: the assignment rows[i] = new_row, then the recomputation
UpdateRowRows(rs, i, new_row) ==
  IF PyPos(Len(rs), i) = 0 THEN [rows |-> rs, raised |-> IndexError]
  ELSE UpdateOffsetsAndAddresses([rs EXCEPT ![PyPos(Len(rs), i)] = new_row])

\* UpdateRow: the label registry after the call
UpdateRowLabels(ls, rs, i, new_row) ==
  IF PyPos(Len(rs), i) = 0 THEN ls
  ELSE IF new_row.label # EmptyStr /\ new_row.label \notin ls
       THEN ls \cup {new_row.label}
       ELSE ls

\* SetCPU: the capstone constant of each supported architecture
arches ==
  [a \in {X86, X64, ARM, ARM64, MIPS} |->
     CASE a = X86 -> "CS_ARCH_X86"
       [] a = X64 -> "CS_ARCH_X86"
       [] a = ARM -> "CS_ARCH_ARM"
       [] a = ARM64 -> "CS_ARCH_ARM64"
       [] a = MIPS -> "CS_ARCH_MIPS"]

\* SetCPU: the cpu after the call and what the call raised
SetCPUResult(c, arch) ==
  IF arch \notin DOMAIN arches THEN [cpu |-> c, raised |-> AssemblyStoreError]
  ELSE [cpu |-> arches[arch], raised |-> NoRaise]

\* the assignment made before the test of the value
SetBitsResult_Unchecked(b, new_bits) ==
  [bits |-> new_bits, ret |-> IF new_bits \in {16, 32, 64} THEN "True" ELSE "False"]

\* SetBits: the bits after the call and what the call returned
SetBitsResult(b, new_bits) ==
  IF new_bits \in {16, 32, 64} THEN [bits |-> new_bits, ret |-> "True"]
  ELSE [bits |-> b, ret |-> "False"]

\* a shallow copy in place of the deep one: a new row object that shares the
\* targets list of the store's row
DeepCopyRow_Shallow(rs, index) ==
  IF index < 0 \/ index >= Len(rs) THEN [raised |-> AssemblyStoreError, obj |-> <<>>]
  ELSE [raised |-> NoRaise, obj |-> <<[ref |-> 0, tref |-> index + 1, row |-> rs[index + 1]]>>]

\* DeepCopyRow: cPickle.loads(cPickle.dumps(row)) builds a new object with new
\* sub-objects. An object is [ref, tref, row]: row holds its fields, ref is the
\* position in rows of the store's object it is (0: an object of its own), tref
\* the position of the store's row whose targets list it shares (0: its own list).
DeepCopyRow(rs, index) ==
  IF index < 0 \/ index >= Len(rs) THEN [raised |-> AssemblyStoreError, obj |-> <<>>]
  ELSE [raised |-> NoRaise, obj |-> <<[ref |-> 0, tref |-> 0, row |-> rs[index + 1]]>>]

\* AddTenRows: the rows of the loop
\*   self.rows.append(RowData(0, '','','','','', starting_index)); starting_index += 1
\* the address of each being the str ''
AddTenRowsRows(rs) ==
  rs \o [k \in 1..AddedRows |->
          RowData(0, EmptyStr, StrAddress, EmptyStr, EmptyStr, EmptyStr,
                  Len(rs) + k - 1, FALSE, 0)]

\* CreateRowFromCapstoneInst: the row it builds, "%s %s" % (inst.mnemonic,
\* inst.op_str()) for mnemonic and str(inst.bytes) for opcode
CapstoneRow(index, inst) ==
  RowData(0, EmptyStr, inst.address, inst.bytes,
          inst.mnemonic \o <<32>> \o inst.op_str, EmptyStr, index, TRUE, 0)

\* ClearErrors
ClearErrorsRows(rs) == [k \in 1..Len(rs) |-> [rs[k] EXCEPT !.error = FALSE]]

\* SetErrorAtIndex: rows[index] counts from the end for a negative index and
\* raises IndexError out of range
SetErrorAtIndexRows(rs, index) ==
  IF PyPos(Len(rs), index) = 0 THEN [rows |-> rs, raised |-> IndexError]
  ELSE [rows |-> [rs EXCEPT ![PyPos(Len(rs), index)].error = TRUE], raised |-> NoRaise]

\* the caller's statements on a row object it holds
ApplyEdit(row, e) ==
  CASE e = "label" -> [row EXCEPT !.label = IF @ = EmptyStr THEN LabelL ELSE EmptyStr]
    [] e = "targets.append" -> [row EXCEPT !.targets = Append(@, 1)]
    [] e = "targets[0]" -> [row EXCEPT !.targets[1] = 1 - @]

\* the store's rows after the caller's statement e on the object o: the
\* statement reaches the store only through an object or a list the store shares
RowsAfterEdit(rs, o, e) ==
  IF o.ref \in 1..Len(rs) THEN [rs EXCEPT ![o.ref] = ApplyEdit(@, e)]
  ELSE IF o.tref \in 1..Len(rs) /\ e \in {"targets.append", "targets[0]"}
       THEN [rs EXCEPT ![o.tref].targets = ApplyEdit(rs[o.tref], e).targets]
       ELSE rs

----------------------------------------------------------------------------
\* State machine

\* iter: no generator, a generator not yet started, one suspended at its yield
\* (i: the index of the next row, n: the len(rows) its xrange was built with),
\* or one that has ended
NoIterator == [state |-> "none", i |-> 0, n |-> 0]

\* the bound on the addresses (see MaxDrift)
AddressesBounded(rs) ==
  \A k \in 1..Len(rs) :
    IF IsInt(rs[k].address)
    THEN \E a \in AddressInputs \cup {PyInt(0)} :
           a.int <= rs[k].address.int /\ rs[k].address.int <= a.int + MaxDrift
    ELSE TRUE

\* the objects the caller holds after a call of the store that leaves the list
\* rs, at[p] being where the object that stood at position p stands in rs: an
\* object of the store shows what the store has done to it, and is the
\* caller's alone once it is out of the list
HeldAfter(h, rs, at) ==
  IF h = <<>> THEN h
  ELSE LET ref == IF h[1].ref \in DOMAIN at THEN at[h[1].ref] ELSE 0
           tref == IF h[1].tref \in DOMAIN at THEN at[h[1].tref] ELSE 0
       IN <<[ref |-> ref, tref |-> tref,
             row |-> IF ref # 0 THEN rs[ref] ELSE h[1].row]>>

Call(op, raised, ret) == [op |-> op, raised |-> raised, ret |-> ret]
\* a call that returned a str, a call that returned a dict: the field is named
\* after the type, values of different types not being comparable
CallStr(op, raised, str) == [op |-> op, raised |-> raised, str |-> str]
CallDict(op, raised, dict) == [op |-> op, raised |-> raised, dict |-> dict]

\* AssemblyStore.__init__: the rows of the loop
\*   for i in xrange(20): self.rows.append(RowData(0, '', 0, '', '', '', i))
NewStoreRows ==
  [k \in 1..InitRows |->
     RowData(0, EmptyStr, PyInt(0), EmptyStr, EmptyStr, EmptyStr, k - 1, FALSE, 0)]

Init ==
  /\ rows = NewStoreRows
  /\ labels = {}
  /\ cpu = "CS_ARCH_X86"
  /\ bits = 32
  /\ cfg = None
  /\ held = <<>>
  /\ iter = NoIterator
  /\ last = Call("__init__", NoRaise, None)

\* store.InsertRowAt(index, row), the caller keeping no reference to row
InsertRowAt(index, row) ==
  /\ Len(rows) < MaxRows
  /\ LET res == InsertRowAtRows(rows, index, row)
     IN /\ AddressesBounded(res.rows)
        /\ rows' = res.rows
        /\ held' = HeldAfter(held, res.rows, AfterInsert(Len(rows), index))
        /\ last' = Call("InsertRowAt", res.raised, None)
  /\ UNCHANGED <<labels, cpu, bits, cfg, iter>>

\* store.InsertRowAt(index, held): the object the caller holds is in the list
\* from now on
InsertRowAtHeld(index) ==
  /\ held # <<>>
  /\ held[1].ref = 0 /\ held[1].tref = 0
  /\ Len(rows) < MaxRows
  /\ LET res == InsertRowAtRows(rows, index, held[1].row)
         p == InsertPos(Len(rows), index) + 1
     IN /\ AddressesBounded(res.rows)
        /\ rows' = res.rows
        /\ held' = <<[ref |-> p, tref |-> 0, row |-> res.rows[p]]>>
        /\ last' = Call("InsertRowAt", res.raised, None)
  /\ UNCHANGED <<labels, cpu, bits, cfg, iter>>

\* store.CreateRowFromCapstoneInst(index, inst)
CreateRowFromCapstoneInst(index, inst) ==
  /\ Len(rows) < MaxRows
  /\ LET res == InsertRowAtRows(rows, index, CapstoneRow(index, inst))
     IN /\ AddressesBounded(res.rows)
        /\ rows' = res.rows
        /\ held' = HeldAfter(held, res.rows, AfterInsert(Len(rows), index))
        /\ last' = Call("CreateRowFromCapstoneInst", res.raised, None)
  /\ UNCHANGED <<labels, cpu, bits, cfg, iter>>

\* store.AddTenRows(): no recomputation follows the appends
AddTenRows ==
  /\ Len(rows) + AddedRows <= MaxRows
  /\ rows' = AddTenRowsRows(rows)
  /\ held' = HeldAfter(held, rows', Unmoved(Len(rows)))
  /\ last' = Call("AddTenRows", NoRaise, None)
  /\ UNCHANGED <<labels, cpu, bits, cfg, iter>>

DeleteRow(index) ==
  /\ LET res == DeleteRowRows(rows, index)
     IN /\ AddressesBounded(res.rows)
        /\ rows' = res.rows
        /\ held' = HeldAfter(held, res.rows, AfterPop(Len(rows), index))
        /\ last' = Call("DeleteRow", res.raised, None)
  /\ UNCHANGED <<labels, cpu, bits, cfg, iter>>

\* store.UpdateRow(i, new_row), the caller keeping no reference to new_row
UpdateRow(i, new_row) ==
  /\ LET res == UpdateRowRows(rows, i, new_row)
     IN /\ AddressesBounded(res.rows)
        /\ rows' = res.rows
        /\ held' = HeldAfter(held, res.rows, AfterAssign(Len(rows), i))
        /\ last' = Call("UpdateRow", res.raised, None)
  /\ labels' = UpdateRowLabels(labels, rows, i, new_row)
  /\ UNCHANGED <<cpu, bits, cfg, iter>>

\* store.UpdateRow(i, held): the object the caller holds is in the list from
\* now on, unless the index is out of range
UpdateRowHeld(i) ==
  /\ held # <<>>
  /\ held[1].ref = 0 /\ held[1].tref = 0
  /\ LET res == UpdateRowRows(rows, i, held[1].row)
         p == PyPos(Len(rows), i)
     IN /\ AddressesBounded(res.rows)
        /\ rows' = res.rows
        /\ held' = IF p = 0 THEN held
                   ELSE <<[ref |-> p, tref |-> 0, row |-> res.rows[p]]>>
        /\ last' = Call("UpdateRow", res.raised, None)
  /\ labels' = UpdateRowLabels(labels, rows, i, held[1].row)
  /\ UNCHANGED <<cpu, bits, cfg, iter>>

Reset ==
  /\ cfg' = None
  /\ rows' = <<>>
  /\ held' = HeldAfter(held, rows', Dropped(Len(rows)))
  /\ last' = Call("Reset", NoRaise, None)
  /\ UNCHANGED <<labels, cpu, bits, iter>>

\* store.UpdateOffsetsAndAddresses(), called by itself
Recompute ==
  /\ LET res == UpdateOffsetsAndAddresses(rows)
     IN /\ AddressesBounded(res.rows)
        /\ rows' = res.rows
        /\ held' = HeldAfter(held, res.rows, Unmoved(Len(rows)))
        /\ last' = Call("UpdateOffsetsAndAddresses", res.raised, None)
  /\ UNCHANGED <<labels, cpu, bits, cfg, iter>>

\* store.ClearErrors()
ClearErrors ==
  /\ rows' = ClearErrorsRows(rows)
  /\ held' = HeldAfter(held, rows', Unmoved(Len(rows)))
  /\ last' = Call("ClearErrors", NoRaise, None)
  /\ UNCHANGED <<labels, cpu, bits, cfg, iter>>

\* store.SetErrorAtIndex(index)
SetErrorAtIndex(index) ==
  /\ LET res == SetErrorAtIndexRows(rows, index)
     IN /\ rows' = res.rows
        /\ held' = HeldAfter(held, res.rows, Unmoved(Len(rows)))
        /\ last' = Call("SetErrorAtIndex", res.raised, None)
  /\ UNCHANGED <<labels, cpu, bits, cfg, iter>>

\* store = AssemblyStore() once the instance exists: __new__ returns
\* cls._instance, and Python then calls __init__ on the object __new__ returned
AssemblyStore ==
  /\ bits' = 32
  /\ cpu' = SetCPUResult(None, X86).cpu
  /\ rows' = NewStoreRows
  /\ cfg' = None
  /\ labels' = {}
  /\ held' = HeldAfter(held, rows', Dropped(Len(rows)))
  /\ last' = Call("AssemblyStore", NoRaise, None)
  /\ UNCHANGED iter

SetCPU(arch) ==
  /\ LET res == SetCPUResult(cpu, arch)
     IN /\ cpu' = res.cpu
        /\ last' = Call("SetCPU", res.raised, None)
  /\ UNCHANGED <<rows, labels, bits, cfg, held, iter>>

SetBits(new_bits) ==
  /\ LET res == SetBitsResult(bits, new_bits)
     IN /\ bits' = res.bits
        /\ last' = Call("SetBits", NoRaise, res.ret)
  /\ UNCHANGED <<rows, labels, cpu, cfg, held, iter>>

\* held = store.GetRow(i)
GetRow(i) ==
  /\ LET res == DeepCopyRow(rows, i)
     IN /\ held' = IF res.raised = NoRaise THEN res.obj ELSE held
        /\ last' = Call("GetRow", res.raised, None)
  /\ UNCHANGED <<rows, labels, cpu, bits, cfg, iter>>

\* held = store.GetRows()[i]: GetRows returns the list itself, so the caller
\* holds the store's own row object
GetRows(i) ==
  /\ LET p == PyPos(Len(rows), i)
     IN IF p = 0
        THEN /\ held' = held
             /\ last' = Call("GetRows", IndexError, None)
        ELSE /\ held' = <<[ref |-> p, tref |-> 0, row |-> rows[p]]>>
             /\ last' = Call("GetRows", NoRaise, None)
  /\ UNCHANGED <<rows, labels, cpu, bits, cfg, iter>>

\* iter = store.GetRowsIterator(): nothing of the body runs yet
GetRowsIterator ==
  /\ iter' = [state |-> "new", i |-> 0, n |-> 0]
  /\ last' = Call("GetRowsIterator", NoRaise, None)
  /\ UNCHANGED <<rows, labels, cpu, bits, cfg, held>>

\* held = next(iter): the generator runs to its next yield, to its end
\* (StopIteration) or to the exception DeepCopyRow raises
IterNext ==
  /\ iter.state \in {"new", "suspended", "done"}
  /\ LET n == IF iter.state = "new" THEN Len(rows) ELSE iter.n
         res == DeepCopyRow(rows, iter.i)
     IN IF iter.state = "done" \/ iter.i >= n
        THEN /\ iter' = [state |-> "done", i |-> 0, n |-> 0]
             /\ held' = held
             /\ last' = Call("next", "StopIteration", None)
        ELSE IF res.raised # NoRaise
        THEN /\ iter' = [state |-> "done", i |-> 0, n |-> 0]
             /\ held' = held
             /\ last' = Call("next", res.raised, None)
        ELSE /\ iter' = [state |-> "suspended", i |-> iter.i + 1, n |-> n]
             /\ held' = res.obj
             /\ last' = Call("next", NoRaise, None)
  /\ UNCHANGED <<rows, labels, cpu, bits, cfg>>

\* the caller changes a field of the row object it holds
EditHeld(e) ==
  /\ held # <<>>
  /\ e = "targets.append" => Len(held[1].row.targets) < MaxTargets
  /\ held' = <<[held[1] EXCEPT !.row = ApplyEdit(@, e)]>>
  /\ rows' = RowsAfterEdit(rows, held[1], e)
  /\ last' = Call("edit", NoRaise, None)
  /\ UNCHANGED <<labels, cpu, bits, cfg, iter>>

\* the store's rows after a method of the held object o has left it as new_row
RowsAfterCall(rs, o, new_row) ==
  IF o.ref \in 1..Len(rs) THEN [rs EXCEPT ![o.ref] = new_row] ELSE rs

\* held = RowData(0, '', address, opcode, mnemonic, '', 0, in_use)
NewRowData(address, opcode, mnemonic) ==
  /\ held' = <<[ref |-> 0, tref |-> 0,
                row |-> RowData(0, EmptyStr, address, opcode, mnemonic, EmptyStr,
                                0, opcode # EmptyStr, 0)]>>
  /\ last' = Call("RowData", NoRaise, None)
  /\ UNCHANGED <<rows, labels, cpu, bits, cfg, iter>>

\* held.SetOpcode(hex_str)
SetOpcode(hex_str) ==
  /\ held # <<>>
  /\ LET new_row == SetOpcodeRow(held[1].row, hex_str)
     IN /\ held' = <<[held[1] EXCEPT !.row = new_row]>>
        /\ rows' = RowsAfterCall(rows, held[1], new_row)
  /\ last' = Call("SetOpcode", NoRaise, None)
  /\ UNCHANGED <<labels, cpu, bits, cfg, iter>>

\* held.SetOpcode(held.DisplayOpcode()): the string DisplayOpcode has just
\* returned is handed to SetOpcode
SetOpcodeDisplayed ==
  /\ last.op = "DisplayOpcode"
  /\ SetOpcode(last.str)

\* held.SetMnemonic(mnemonic)
SetMnemonic(mnemonic) ==
  /\ held # <<>>
  /\ LET res == SetMnemonicRow(held[1].row, mnemonic)
     IN /\ held' = <<[held[1] EXCEPT !.row = res.row]>>
        /\ rows' = RowsAfterCall(rows, held[1], res.row)
        /\ last' = Call("SetMnemonic", res.raised, None)
  /\ UNCHANGED <<labels, cpu, bits, cfg, iter>>

\* held.SetLabel(label)
SetLabel(label) ==
  /\ held # <<>>
  /\ LET new_row == SetLabelRow(held[1].row, label)
     IN /\ held' = <<[held[1] EXCEPT !.row = new_row]>>
        /\ rows' = RowsAfterCall(rows, held[1], new_row)
  /\ last' = Call("SetLabel", NoRaise, None)
  /\ UNCHANGED <<labels, cpu, bits, cfg, iter>>

\* held.SetComment(comment)
SetComment(comment) ==
  /\ held # <<>>
  /\ LET new_row == SetCommentRow(held[1].row, comment)
     IN /\ held' = <<[held[1] EXCEPT !.row = new_row]>>
        /\ rows' = RowsAfterCall(rows, held[1], new_row)
  /\ last' = Call("SetComment", NoRaise, None)
  /\ UNCHANGED <<labels, cpu, bits, cfg, iter>>

\* held.SetAddress(address)
SetAddress(address) ==
  /\ held # <<>>
  /\ LET new_row == SetAddressRow(held[1].row, address)
     IN /\ held' = <<[held[1] EXCEPT !.row = new_row]>>
        /\ rows' = RowsAfterCall(rows, held[1], new_row)
  /\ last' = Call("SetAddress", NoRaise, None)
  /\ UNCHANGED <<labels, cpu, bits, cfg, iter>>

\* held.DisplayAddress()
DisplayAddress ==
  /\ held # <<>>
  /\ LET res == DisplayAddressStr(held[1].row)
     IN last' = IF res.raised = NoRaise
                THEN CallStr("DisplayAddress", NoRaise, res.str)
                ELSE Call("DisplayAddress", res.raised, None)
  /\ UNCHANGED <<rows, labels, cpu, bits, cfg, held, iter>>

\* held.DisplayOpcode()
DisplayOpcode ==
  /\ held # <<>>
  /\ last' = CallStr("DisplayOpcode", NoRaise, DisplayOpcodeStr(held[1].row))
  /\ UNCHANGED <<rows, labels, cpu, bits, cfg, held, iter>>

\* held.ToDict()
ToDict ==
  /\ held # <<>>
  /\ LET res == ToDictRow(held[1].row)
     IN last' = IF res.raised = NoRaise
                THEN CallDict("ToDict", NoRaise, res.dict)
                ELSE Call("ToDict", res.raised, None)
  /\ UNCHANGED <<rows, labels, cpu, bits, cfg, held, iter>>

\* store.ReplaceLabel(held, inst), with str(inst) = inst_str
ReplaceLabel(inst_str) ==
  /\ held # <<>>
  /\ LET res == ReplaceLabelResult(held[1].row, inst_str)
     IN /\ held' = <<[held[1] EXCEPT !.row = res.row]>>
        /\ rows' = RowsAfterCall(rows, held[1], res.row)
        /\ last' = IF res.raised = NoRaise
                   THEN CallStr("ReplaceLabel", NoRaise, res.ret)
                   ELSE Call("ReplaceLabel", res.raised, None)
  /\ UNCHANGED <<labels, cpu, bits, cfg, iter>>

\* The store under insertions, deletions, replacements and Reset.
Next ==
  \/ \E index \in IndexInputs, row \in RowInputs : InsertRowAt(index, row)
  \/ \E index \in IndexInputs : DeleteRow(index)
  \/ \E i \in IndexInputs, new_row \in RowInputs : UpdateRow(i, new_row)
  \/ Reset

Spec == Init /\ [][Next]_vars

\* The store of the rows it was created with, under replacements and deletions.
NextReplace ==
  \/ \E i \in IndexInputs, new_row \in RowInputs : UpdateRow(i, new_row)
  \/ \E index \in IndexInputs : DeleteRow(index)

SpecReplace == Init /\ [][NextReplace]_vars

\* The selectors, over a store whose rows are replaced and deleted.
NextSelectors ==
  \/ \E arch \in ArchInputs : SetCPU(arch)
  \/ \E new_bits \in BitsInputs : SetBits(new_bits)
  \/ \E i \in IndexInputs, new_row \in RowInputs : UpdateRow(i, new_row)
  \/ \E index \in IndexInputs : DeleteRow(index)

SpecSelectors == Init /\ [][NextSelectors]_vars

\* The caller reads rows, singly and through the generator, and changes the
\* objects it got, over a store whose rows are replaced by encoded instructions.
NextReaders ==
  \/ \E i \in IndexInputs : GetRow(i)
  \/ GetRowsIterator
  \/ IterNext
  \/ \E e \in EditInputs : EditHeld(e)
  \/ \E i \in IndexInputs, new_row \in {r \in RowInputs : r.in_use} : UpdateRow(i, new_row)

SpecReaders == Init /\ [][NextReaders]_vars

\* The life of the one instance: the store is used, cleared by Reset and
\* constructed again.
NextLifecycle ==
  \/ AssemblyStore
  \/ Reset
  \/ \E new_bits \in BitsInputs : SetBits(new_bits)
  \/ \E i \in IndexInputs, new_row \in RowInputs : UpdateRow(i, new_row)
  \/ \E index \in IndexInputs : DeleteRow(index)

SpecLifecycle == Init /\ [][NextLifecycle]_vars

\* The recomputation called by itself, on the lists insertions, deletions and
\* AddTenRows leave (those of an InsertRowAt that raised before its own
\* recomputation among them).
NextRecompute ==
  \/ Recompute
  \/ AddTenRows
  \/ \E index \in IndexInputs, row \in RowInputs : InsertRowAt(index, row)
  \/ \E index \in IndexInputs : DeleteRow(index)

SpecRecompute == Init /\ [][NextRecompute]_vars

\* The caller walks the generator while rows are deleted and encoded
\* instructions without a label are inserted.
NextIterate ==
  \/ GetRowsIterator
  \/ IterNext
  \/ \E index \in IndexInputs, row \in {r \in RowInputs : r.in_use /\ r.label = EmptyStr} :
       InsertRowAt(index, row)
  \/ \E index \in IndexInputs : DeleteRow(index)

SpecIterate == Init /\ [][NextIterate]_vars

\* One row object the caller builds, with an integer for address, and works on
\* with the methods of RowData and with ReplaceLabel; SetOpcode is also handed
\* the string DisplayOpcode has just returned.
NextRow ==
  \/ \E address \in AddressInputs, opcode \in OpcodeInputs, mnemonic \in {EmptyStr, MnemJmp} :
       NewRowData(address, opcode, mnemonic)
  \/ \E hex_str \in HexInputs : SetOpcode(hex_str)
  \/ SetOpcodeDisplayed
  \/ \E mnemonic \in MnemonicInputs : SetMnemonic(mnemonic)
  \/ DisplayOpcode
  \/ ToDict
  \/ \E inst_str \in InstInputs : ReplaceLabel(inst_str)

SpecRow == Init /\ [][NextRow]_vars

\* The list grows and shrinks: AddTenRows, CreateRowFromCapstoneInst, Reset,
\* replacements and deletions.
NextGrow ==
  \/ AddTenRows
  \/ \E index \in IndexInputs, inst \in CapstoneInsts : CreateRowFromCapstoneInst(index, inst)
  \/ Reset
  \/ \E i \in IndexInputs, new_row \in RowInputs : UpdateRow(i, new_row)
  \/ \E index \in IndexInputs : DeleteRow(index)

SpecGrow == Init /\ [][NextGrow]_vars

\* One row object the caller builds or copies out of the store (a row
\* AddTenRows appended, with the str '' for address, among them), its label,
\* comment and address set from texts and displayed.
NextSetters ==
  \/ \E address \in AddressInputs \cup {StrAddress} : NewRowData(address, OpNop, EmptyStr)
  \/ AddTenRows
  \/ \E i \in IndexInputs : GetRow(i)
  \/ \E label \in TextInputs : SetLabel(label)
  \/ \E comment \in TextInputs : SetComment(comment)
  \/ \E address \in AddressTextInputs : SetAddress(address)
  \/ DisplayAddress
  \/ ToDict

SpecSetters == Init /\ [][NextSetters]_vars

\* The caller holds an object of the store itself, taken from GetRows(): what
\* it does to the object it does to the row of the store, and what the store
\* does to its rows shows in the object.
NextShared ==
  \/ \E i \in IndexInputs : GetRows(i)
  \/ SetOpcode(OpZZ)
  \/ SetLabel(<<97, 98>>)
  \/ \E index \in IndexInputs : SetErrorAtIndex(index)
  \/ ClearErrors
  \/ \E index \in IndexInputs : DeleteRow(index)

SpecShared == Init /\ [][NextShared]_vars

\* The caller builds a row, hands it to UpdateRow or InsertRowAt and keeps it:
\* the object it holds is the row of the store.
NextKept ==
  \/ NewRowData(PyInt(4096), OpNop, MnemNop)
  \/ \E i \in IndexInputs : UpdateRowHeld(i)
  \/ \E index \in IndexInputs : InsertRowAtHeld(index)
  \/ SetOpcode(OpZZ)
  \/ \E index \in IndexInputs : DeleteRow(index)

SpecKept == Init /\ [][NextKept]_vars

----------------------------------------------------------------------------
\* Vocabulary of the properties

MutatingOps == {"InsertRowAt", "DeleteRow", "UpdateRow"}

\* positions before k whose row is in use
InUseBefore(rs, k) == {j \in 1..(k - 1) : rs[j].in_use}

Highest(S) == CHOOSE m \in S : \A j \in S : j <= m

\* sum of len(opcode) over the rows at the positions S
OpcodeBytes(rs, S) ==
  LET RECURSIVE UpTo(_)
      UpTo(k) == IF k = 0 THEN 0
                 ELSE (IF k \in S THEN Len(rs[k].opcode) ELSE 0) + UpTo(k - 1)
  IN UpTo(Len(rs))

\* every in-use row after an in-use row starts where the nearest one ends
ChainedLayout(rs) ==
  /\ Len(rs) > 0 => rs[1].offset = 0
  /\ \A k \in 2..Len(rs) :
       (rs[k].in_use /\ InUseBefore(rs, k) # {}) =>
         LET p == Highest(InUseBefore(rs, k))
         IN /\ IsInt(rs[p].address)
            /\ rs[k].address = PyInt(rs[p].address.int + Len(rs[p].opcode))
            /\ rs[k].offset = rs[p].offset + Len(rs[p].opcode)

\* every in-use row i > 0 lies after the bytes of the in-use rows before it
InUseOnlyLayout(rs) ==
  \A k \in 2..Len(rs) :
    rs[k].in_use =>
      /\ rs[k].offset = OpcodeBytes(rs, InUseBefore(rs, k))
      /\ IsInt(rs[1].address)
      /\ rs[k].address = PyInt(rs[1].address.int + OpcodeBytes(rs, InUseBefore(rs, k)))

\* the layout the recomputation produces: row 0 counts with its opcode whether
\* in use or not, the rows after it only when in use
AnchoredLayout(rs) ==
  /\ rs[1].offset = 0
  /\ \A k \in 2..Len(rs) :
       rs[k].in_use =>
         LET before == {1} \cup InUseBefore(rs, k)
         IN /\ rs[k].offset = OpcodeBytes(rs, before)
            /\ IsInt(rs[1].address)
            /\ rs[k].address = PyInt(rs[1].address.int + OpcodeBytes(rs, before))

\* r is the row q but for the fields the store maintains
SameContent(r, q) ==
  [r EXCEPT !.address = 0, !.offset = 0, !.index = 0]
    = [q EXCEPT !.address = 0, !.offset = 0, !.index = 0]

RowLabels(rs) == {rs[k].label : k \in 1..Len(rs)} \ {EmptyStr}

\* the bytes 0-9, a-f, A-F
HexDigitBytes == (48..57) \cup (97..102) \cup (65..70)

\* hex_str is a hex string once its spaces are removed
IsValidHex(hex_str) ==
  LET s == replace(hex_str, 32)
  IN Len(s) % 2 = 0 /\ \A k \in 1..Len(s) : s[k] \in HexDigitBytes

\* the hex string s (no spaces) denotes the bytes B, two digits each
Denotes(s, B) ==
  /\ Len(s) = 2 * Len(B)
  /\ \A k \in 1..Len(B) : lower(<<s[2 * k - 1], s[2 * k]>>) = hexlify(<<B[k]>>)

\* s is the bytes B as lower-case hex pairs with one space between two pairs
\* and none at either end
IsHexDisplayOf(s, B) ==
  IF B = <<>> THEN s = <<>>
  ELSE /\ Len(s) = 3 * Len(B) - 1
       /\ \A k \in 1..Len(B) :
            /\ s[3 * k - 2] \in (48..57) \cup (97..102)
            /\ s[3 * k - 1] \in (48..57) \cup (97..102)
            /\ 16 * HexDigitValue(s[3 * k - 2]) + HexDigitValue(s[3 * k - 1]) = B[k]
            /\ k < Len(B) => s[3 * k] = 32

\* the value of a string of hex digits
RECURSIVE HexStringValue(_)
HexStringValue(s) ==
  IF s = <<>> THEN 0
  ELSE 16 * HexStringValue(SubSeq(s, 1, Len(s) - 1)) + HexDigitValue(s[Len(s)])

\* s is "0x" and the lower-case hex digits of n >= 0, without a leading zero
IsHexAddressOf(s, n) ==
  /\ Len(s) >= 3
  /\ SubSeq(s, 1, 2) = <<48, 120>>
  /\ \A k \in 3..Len(s) : s[k] \in (48..57) \cup (97..102)
  /\ (Len(s) > 3 => s[3] # 48)
  /\ HexStringValue(SubSeq(s, 3, Len(s))) = n

\* the text has a leading token, and it is db, dw, dd or dq in any case
IsDataDefinitionText(mnemonic) ==
  split(mnemonic) # <<>> /\ lower(split(mnemonic)[1]) \in DataDefinitions

\* the row's mnemonic and the decoded text have the same leading token, case
\* aside, and as many of each of '[', ']', '+', '-', ','
SameShape(row, inst_str) ==
  /\ split(row.mnemonic) # <<>>
  /\ split(inst_str) # <<>>
  /\ lower(split(row.mnemonic)[1]) = lower(split(inst_str)[1])
  /\ \A c \in CountedBytes : count(row.mnemonic, c) = count(inst_str, c)

\* after is the list before but for addresses and offsets, those of row 0's
\* address and of the rows i > 0 not in use being as before too
OnlyLayoutOfRowsInUse(before, after) ==
  /\ Len(after) = Len(before)
  /\ \A k \in 1..Len(before) :
       [after[k] EXCEPT !.address = 0, !.offset = 0]
         = [before[k] EXCEPT !.address = 0, !.offset = 0]
  /\ Len(before) > 0 => after[1].address = before[1].address
  /\ \A k \in 2..Len(before) :
       ~before[k].in_use =>
         (after[k].address = before[k].address /\ after[k].offset = before[k].offset)

\* the row is in the ERROR state a malformed SetOpcode leaves
InErrorState(row) ==
  row.error /\ ~row.in_use /\ row.mnemonic = InvalidOpcodeSupplied

----------------------------------------------------------------------------
\* C1: after every InsertRowAt / DeleteRow / UpdateRow call, row 0 has offset 0
\* and every in-use row i > 0 with an in-use predecessor has the address and the
\* offset of its nearest in-use predecessor p plus len(opcode[p]).
C1_RecomputationInvariant ==
  last.op \in MutatingOps => ChainedLayout(rows)

\* C1, for the calls that return: the same layout after every InsertRowAt /
\* DeleteRow / UpdateRow call that raised nothing.
C1_AfterCompletedCalls ==
  (last.op \in MutatingOps /\ last.raised = NoRaise) => ChainedLayout(rows)

\* C2: after every mutation, a row not in use contributes no bytes: every in-use
\* row i > 0 has for offset the sum of len(opcode) over the in-use rows before it
\* and for address row 0's address plus that sum.
C2_UnusedRowsContributeNothing ==
  last.op \in MutatingOps => InUseOnlyLayout(rows)

\* C3: after any InsertRowAt or DeleteRow, every row's index is its position.
C3_IndexIntegrity ==
  last.op \in {"InsertRowAt", "DeleteRow"} =>
    \A k \in 1..Len(rows) : rows[k].index = k - 1

\* C5: InsertRowAt(index, row) with index < 0 or index > length raises and leaves
\* the rows and the label registry as they were.
C5_InsertOutOfRangeRejected ==
  [][\A index \in IndexInputs, row \in RowInputs :
       (InsertRowAt(index, row) /\ (index < 0 \/ index > Len(rows))) =>
         (last'.raised # NoRaise /\ rows' = rows /\ labels' = labels)]_vars

\* C6: DeleteRow(index) with index < 0 or index >= length raises and removes no
\* row: the rows are as they were.
C6_DeleteOutOfRangeRejected ==
  [][\A index \in IndexInputs :
       (DeleteRow(index) /\ (index < 0 \/ index >= Len(rows))) =>
         (last'.raised # NoRaise /\ rows' = rows)]_vars

\* C7: with rows 0 and 1 in use and row 0 at base address A, DeleteRow(0) leaves
\* the former row 1 at position 0 with index 0, offset 0 and address A.
C7_DeleteFirstReanchors ==
  [][(DeleteRow(0) /\ Len(rows) >= 2 /\ rows[1].in_use /\ rows[2].in_use) =>
       /\ Len(rows') = Len(rows) - 1
       /\ SameContent(rows'[1], rows[2])
       /\ rows'[1].index = 0
       /\ rows'[1].offset = 0
       /\ rows'[1].address = rows[1].address]_vars

\* C8: after any InsertRowAt, UpdateRow, DeleteRow or Reset the label registry
\* is the set of the non-empty labels of the rows in the list.
C8_LabelRegistry ==
  last.op \in MutatingOps \cup {"Reset"} => labels = RowLabels(rows)

\* C9: UpdateRow(i, new_row) with 0 <= i < length raises nothing, replaces the row
\* at position i by new_row and no other, keeps the length, adds new_row.label
\* to the registry when it is non-empty (the registry changes in no other way)
\* and leaves the rows laid out by the recomputation.
C9_UpdateRow ==
  [][\A i \in IndexInputs, new_row \in RowInputs :
       (last'.op = "UpdateRow" /\ 0 <= i /\ i < Len(rows) /\ UpdateRow(i, new_row)) =>
         /\ last'.raised = NoRaise
         /\ Len(rows') = Len(rows)
         /\ SameContent(rows'[i + 1], new_row)
         /\ \A k \in 1..Len(rows) : k # i + 1 => SameContent(rows'[k], rows[k])
         /\ labels' = labels \cup ({new_row.label} \ {EmptyStr})
         /\ AnchoredLayout(rows')]_vars

\* C9, for a list whose row 0 has an integer for address once the row is
\* replaced (the rows AddTenRows appends have the str ''): the same.
C9_WithIntegerAnchor ==
  [][\A i \in IndexInputs, new_row \in RowInputs :
       (last'.op = "UpdateRow" /\ 0 <= i /\ i < Len(rows) /\ UpdateRow(i, new_row)
          /\ IsInt(rows'[1].address)) =>
         /\ last'.raised = NoRaise
         /\ Len(rows') = Len(rows)
         /\ SameContent(rows'[i + 1], new_row)
         /\ \A k \in 1..Len(rows) : k # i + 1 => SameContent(rows'[k], rows[k])
         /\ labels' = labels \cup ({new_row.label} \ {EmptyStr})
         /\ AnchoredLayout(rows')]_vars

\* C9 witness: an UpdateRow has returned, its label is registered and an in-use
\* row lies after another in-use row.
C9_Witness ==
  /\ last = Call("UpdateRow", NoRaise, None)
  /\ labels # {}
  /\ \E k \in 2..Len(rows) : rows[k].in_use /\ InUseBefore(rows, k) # {} /\ rows[k].offset > 0

\* C4: whatever the caller does to a row object it got from GetRow or from the
\* generator of GetRowsIterator (a field, an append to its targets, an element
\* of its targets), the rows of the store and the label registry stay as they are.
C4_CopyIsolation ==
  [][\A e \in EditInputs : EditHeld(e) => (rows' = rows /\ labels' = labels)]_vars

\* C4 witness: the caller has changed the label and the targets of a row it got
\* from the generator, and the store holds no such row.
C4_Witness ==
  /\ last.op = "edit"
  /\ iter.state = "suspended"
  /\ held # <<>>
  /\ held[1].row.label = LabelL
  /\ Len(held[1].row.targets) > 1
  /\ held[1].row.targets[1] = 1
  /\ \A k \in 1..Len(rows) : rows[k] # held[1].row /\ rows[k].targets = <<0>>

\* C10: SetCPU with an unsupported value raises AssemblyStoreError and SetBits
\* with a value other than 16, 32, 64 returns False, and both leave cpu, bits,
\* rows and labels as they were; SetCPU with a supported value raises nothing and
\* leaves bits, rows and labels, SetBits with 16, 32 or 64 returns True, sets
\* bits to it and leaves cpu, rows and labels.
C10_Selectors ==
  [][/\ \A arch \in ArchInputs :
          SetCPU(arch) =>
            /\ rows' = rows /\ labels' = labels /\ bits' = bits
            /\ IF arch \in {X86, X64, ARM, ARM64, MIPS}
               THEN last'.raised = NoRaise
               ELSE last'.raised = AssemblyStoreError /\ cpu' = cpu
     /\ \A new_bits \in BitsInputs :
          SetBits(new_bits) =>
            /\ rows' = rows /\ labels' = labels /\ cpu' = cpu
            /\ last'.raised = NoRaise
            /\ IF new_bits \in {16, 32, 64}
               THEN last'.ret = "True" /\ bits' = new_bits
               ELSE last'.ret = "False" /\ bits' = bits]_vars

\* C10 witness: SetBits has just refused a value, after both selectors were
\* changed, on a store that holds an encoded row.
C10_Witness ==
  /\ last = Call("SetBits", NoRaise, "False")
  /\ bits = 64
  /\ cpu = "CS_ARCH_MIPS"
  /\ \E k \in 1..Len(rows) : rows[k].in_use

\* C11: the store is created once, with its placeholder rows at indices 0..;
\* constructing AssemblyStore() again hands back the same instance with the
\* rows, the labels and the settings the operations so far have left, and only
\* Reset (or deleting the rows one by one) empties the row list.
C11_SingleInstance ==
  [][/\ AssemblyStore =>
          (rows' = rows /\ labels' = labels /\ cpu' = cpu /\ bits' = bits)
     /\ (rows # <<>> /\ rows' = <<>>) => last'.op \in {"Reset", "DeleteRow"}]_vars

\* C12: SetOpcode never raises. With a string that is not valid hex once its
\* spaces are removed it sets in_use = false, error = true, mnemonic =
\* "<INVALID OPCODE SUPPLIED>" and stores the string itself as the opcode; with
\* valid hex it stores the decoded bytes and sets in_use = true.
C12_MalformedOpcode ==
  [][\A hex_str \in HexInputs :
       (last'.op = "SetOpcode" /\ SetOpcode(hex_str)) =>
         /\ last'.raised = NoRaise
         /\ IF IsValidHex(hex_str)
            THEN /\ Denotes(replace(hex_str, 32), held'[1].row.opcode)
                 /\ held'[1].row.in_use
            ELSE /\ ~held'[1].row.in_use
                 /\ held'[1].row.error
                 /\ held'[1].row.mnemonic = InvalidOpcodeSupplied
                 /\ held'[1].row.opcode = hex_str]_vars

\* C12 witness: SetOpcode("zz") has returned: the row holds the text, the
\* sentinel and the error flag, and is not in use.
C12_Witness ==
  /\ last.op = "SetOpcode"
  /\ held # <<>>
  /\ held[1].row.opcode = <<122, 122>>
  /\ held[1].row.mnemonic = InvalidOpcodeSupplied
  /\ held[1].row.error
  /\ ~held[1].row.in_use

\* C13: for a mnemonic whose leading token is db, dw, dd or dq in any case,
\* SetMnemonic stores the upper-cased leading token immediately followed by the
\* remaining tokens concatenated with no separator, their case kept ("db 1,2,3"
\* gives "DB1,2,3"), and sets is_data_definition and in_use.
C13_DataDefinitionFormat ==
  [][\A mnemonic \in MnemonicInputs :
       (last'.op = "SetMnemonic" /\ SetMnemonic(mnemonic)
          /\ IsDataDefinitionText(mnemonic)) =>
         /\ held'[1].row.mnemonic =
              upper(split(mnemonic)[1]) \o join(Tail(split(mnemonic)))
         /\ held'[1].row.is_a_data_defintion_inst
         /\ held'[1].row.in_use]_vars

\* C13, amended: for such a mnemonic SetMnemonic stores the upper-cased leading
\* token, ONE SPACE, then the remaining tokens concatenated with no separator,
\* their case kept ("dB 1, aB" gives "DB 1,aB"), raises nothing and sets
\* is_data_definition and in_use.
C13_DataDefinitionFormat_OneSpace ==
  [][\A mnemonic \in MnemonicInputs :
       (last'.op = "SetMnemonic" /\ SetMnemonic(mnemonic)
          /\ IsDataDefinitionText(mnemonic)) =>
         /\ last'.raised = NoRaise
         /\ held'[1].row.mnemonic =
              upper(split(mnemonic)[1]) \o <<32>> \o join(Tail(split(mnemonic)))
         /\ held'[1].row.is_a_data_defintion_inst
         /\ held'[1].row.in_use]_vars

\* C13 witness: SetMnemonic("dB 1, aB") has returned on a row that was not in
\* use: the row holds "DB 1,aB".
C13_Witness ==
  /\ last.op = "SetMnemonic"
  /\ last.raised = NoRaise
  /\ held # <<>>
  /\ held[1].row.mnemonic = <<68, 66, 32, 49, 44, 97, 66>>
  /\ held[1].row.is_a_data_defintion_inst
  /\ held[1].row.in_use
  /\ held[1].row.opcode = EmptyStr

\* C14: for every byte sequence B, the empty one included, DisplayOpcode of a
\* row whose opcode is B returns B as lower-case hex pairs separated by single
\* spaces with no trailing space, and SetOpcode of that string stores B again.
C14_RoundTrip ==
  [][/\ (last'.op = "DisplayOpcode" /\ DisplayOpcode) =>
          IsHexDisplayOf(last'.str, held[1].row.opcode)
     /\ (last'.op = "SetOpcode" /\ SetOpcodeDisplayed) =>
          held'[1].row.opcode = held[1].row.opcode]_vars

\* C14 witness: SetOpcode has stored the two bytes '\x0a\x9a', which no string
\* but the displayed "0a 9a" gives it.
C14_Witness ==
  /\ last.op = "SetOpcode"
  /\ held # <<>>
  /\ held[1].row.opcode = <<10, 154>>

\* C15: ReplaceLabel(row, inst) returns the upper-cased mnemonic of the row and
\* leaves the row as it is exactly when the mnemonic and the decoded text have
\* the same leading token (case aside) and the same count of each of '[', ']',
\* '+', '-', ','; in every other case it sets row.error and returns ''.
C15_ReplaceLabel ==
  [][\A inst_str \in InstInputs :
       (last'.op = "ReplaceLabel" /\ ReplaceLabel(inst_str)) =>
         /\ last'.raised = NoRaise
         /\ IF SameShape(held[1].row, inst_str)
            THEN last'.str = upper(held[1].row.mnemonic) /\ held' = held
            ELSE /\ last'.str = EmptyStr
                 /\ held'[1].row = [held[1].row EXCEPT !.error = TRUE]]_vars

\* C15, for texts that have a leading token: the same, when neither the
\* mnemonic of the row nor the decoded text is empty or all whitespace.
C15_WithLeadingTokens ==
  [][\A inst_str \in InstInputs :
       (last'.op = "ReplaceLabel" /\ ReplaceLabel(inst_str)
          /\ split(held[1].row.mnemonic) # <<>>
          /\ split(inst_str) # <<>>) =>
         /\ last'.raised = NoRaise
         /\ IF SameShape(held[1].row, inst_str)
            THEN last'.str = upper(held[1].row.mnemonic) /\ held' = held
            ELSE /\ last'.str = EmptyStr
                 /\ held'[1].row = [held[1].row EXCEPT !.error = TRUE]]_vars

\* C16: ToDict returns a mapping whose keys are exactly offset, label, address,
\* opcode, mnemonic, comment, index, error, in_use, targets, is_data_definition
\* and is_branch_or_call, address and opcode being the strings of DisplayAddress
\* and DisplayOpcode.
C16_ToDictKeys ==
  last.op = "ToDict" =>
    /\ last.raised = NoRaise
    /\ DOMAIN last.dict =
         {"offset", "label", "address", "opcode", "mnemonic", "comment", "index",
          "error", "in_use", "targets", "is_data_definition", "is_branch_or_call"}
    /\ IsInt(held[1].row.address)
    /\ IsHexAddressOf(last.dict.address, held[1].row.address.int)
    /\ IsHexDisplayOf(last.dict.opcode, held[1].row.opcode)

\* C16, amended: ToDict returns a mapping whose keys are exactly offset, label,
\* address, opcode, mnemonic, comment, index, error, in_use, targets,
\* is_a_data_definition_inst and is_a_branch_or_call; address is "0x" and the
\* hex digits of the row's address, opcode the spaced hex pairs of the row's
\* opcode.
C16_ToDictKeys_AsExported ==
  last.op = "ToDict" =>
    /\ last.raised = NoRaise
    /\ DOMAIN last.dict =
         {"offset", "label", "address", "opcode", "mnemonic", "comment", "index",
          "error", "in_use", "targets", "is_a_data_definition_inst",
          "is_a_branch_or_call"}
    /\ IsInt(held[1].row.address)
    /\ IsHexAddressOf(last.dict.address, held[1].row.address.int)
    /\ IsHexDisplayOf(last.dict.opcode, held[1].row.opcode)

\* C16 witness: ToDict has returned for a row at 0x1000 with a two-byte opcode,
\* classified as a data definition.
C16_Witness ==
  /\ last.op = "ToDict"
  /\ last.raised = NoRaise
  /\ last.dict.address = <<48, 120, 49, 48, 48, 48>>
  /\ last.dict.opcode = <<48, 97, 32, 57, 97>>
  /\ last.dict.is_a_data_definition_inst

\* C18: a row a malformed SetOpcode has put in the ERROR state (error = true,
\* in_use = false) is ACTIVE (in_use = true and error = false) after a
\* successful SetOpcode or a SetMnemonic with a non-empty text.
C18_RecoveryFromError ==
  [][/\ \A hex_str \in HexInputs :
          (last'.op = "SetOpcode" /\ SetOpcode(hex_str)
             /\ InErrorState(held[1].row) /\ IsValidHex(hex_str)) =>
            (held'[1].row.in_use /\ ~held'[1].row.error)
     /\ \A mnemonic \in MnemonicInputs :
          (last'.op = "SetMnemonic" /\ SetMnemonic(mnemonic)
             /\ InErrorState(held[1].row) /\ mnemonic # EmptyStr) =>
            (held'[1].row.in_use /\ ~held'[1].row.error)]_vars

\* C17: every pass of the generator of GetRowsIterator, also one whose yields
\* are interleaved with InsertRowAt and DeleteRow, ends after finitely many
\* yields without raising a failure (the StopIteration that ends a pass is
\* none) and yields copies of the rows in increasing position: a next() that
\* yields is the next of at most as many yields as the list had rows when the
\* pass started, and hands out a copy equal to the row at its position.
C17_RowIteration ==
  last.op = "next" =>
    /\ last.raised \in {NoRaise, "StopIteration"}
    /\ last.raised = NoRaise =>
         /\ iter.i <= iter.n
         /\ held[1].ref = 0 /\ held[1].tref = 0
         /\ held[1].row = rows[iter.i]

\* C19: a recomputation pass leaves the address and the offset of every row
\* i > 0 that is not in use as they were, never changes the address of row 0
\* and changes no field but address and offset on any row.
C19_RecomputationFrame ==
  [][last'.op = "UpdateOffsetsAndAddresses" => OnlyLayoutOfRowsInUse(rows, rows')]_vars

\* C19 witness: a pass has returned on a list where a row not in use, with a
\* byte of opcode and an address of its own, lies between row 0 and a row in
\* use that the pass has placed after the bytes of row 0.
C19_Witness ==
  /\ last = Call("UpdateOffsetsAndAddresses", NoRaise, None)
  /\ Len(rows) >= 3
  /\ rows[1].in_use /\ Len(rows[1].opcode) > 0
  /\ ~rows[2].in_use /\ Len(rows[2].opcode) > 0
  /\ rows[2].address # PyInt(rows[1].address.int + Len(rows[1].opcode))
  /\ rows[3].in_use /\ rows[3].offset = Len(rows[1].opcode)

\* C20: DeleteRow(index) with 0 <= index < length always returns without a
\* failure and leaves one row fewer, also when it removes the only row left
\* (leaving the empty list) and after a Reset followed by insertions.
C20_DeleteAlwaysCompletes ==
  [][\A index \in IndexInputs :
       (last'.op = "DeleteRow" /\ 0 <= index /\ index < Len(rows) /\ DeleteRow(index)) =>
         (last'.raised = NoRaise /\ Len(rows') = Len(rows) - 1)]_vars

====
